---- MODULE Spec2Model ----
(***************************************************************************)
(* A model of sync_l10n.py: the tag stream parser (parseAionXml), the      *)
(* record extractor and serializer (AionStringDict.read / write), the      *)
(* repair step (AionString.match_and_repair) and the reconciliation run    *)
(* (sync_strings) over the client, reference, patch and variant files,     *)
(* and the run over all string files (make_package, sync_all_strings).     *)
(*                                                                         *)
(* Text is a sequence of one-character strings.  An Optional value is a    *)
(* set with at most one element: None is {} and a present value v is {v},  *)
(* so that Python's == / != on Optional fields is set (in)equality.        *)
(***************************************************************************)
EXTENDS Integers, Sequences, FiniteSets, TLC

None == {}
Some(v) == {v}
Val(o) == CHOOSE v \in o : TRUE

\* ------------------------------------------------------------------------
\* XMLElement and parseAionXml
\* ------------------------------------------------------------------------

XMLElement(name, text, children) ==
    [name |-> name, text |-> text, children |-> children]

\* The parser's local variables before the first character is read.
ParserInit ==
    [state |-> "DOCUMENT_START",
     element_stack |-> <<>>,
     current_element |-> None,
     tag_name_list |-> <<>>,
     text_list_stack |-> <<>>,
     text_list |-> <<>>,
     status |-> "running",
     result |-> None]

Raise(p) == [p EXCEPT !.status = "raised"]

\* BEGIN_TAG / BEGIN_TAG_ATTRIBUTES on '>': the element is created.
OpenElement(p) ==
    [p EXCEPT !.text_list_stack = Append(p.text_list_stack, p.text_list),
              !.text_list = <<>>,
              !.element_stack = IF p.current_element # None
                                THEN Append(p.element_stack, Val(p.current_element))
                                ELSE p.element_stack,
              !.current_element = Some(XMLElement(p.tag_name_list, <<>>, <<>>)),
              !.tag_name_list = <<>>,
              !.state = "TEXT"]

\* END_TAG on '>' past the name test (lines 116-128): the open element gets
\* its text and goes to its parent, or is returned when it is the root.
PopElement(p) ==
    LET cur == Val(p.current_element)
        closed == [cur EXCEPT !.text = p.text_list]
        n == Len(p.text_list_stack)
        m == Len(p.element_stack)
        restored == p.text_list_stack[n]
        rest == SubSeq(p.text_list_stack, 1, n - 1)
    IN IF m = 0
       THEN [p EXCEPT !.tag_name_list = <<>>,
                      !.current_element = Some(closed),
                      !.text_list = restored,
                      !.text_list_stack = rest,
                      !.status = "returned",
                      !.result = Some(closed)]
       ELSE LET parent == p.element_stack[m] IN
            [p EXCEPT !.tag_name_list = <<>>,
                      !.text_list = restored,
                      !.text_list_stack = rest,
                      !.element_stack = SubSeq(p.element_stack, 1, m - 1),
                      !.current_element =
                          Some([parent EXCEPT !.children = Append(parent.children, closed)]),
                      !.state = "TEXT"]

\* A faulty CloseElement: the closing name is not compared.
CloseElementUnchecked(p) ==
    IF p.current_element = None THEN Raise(p) ELSE PopElement(p)

\* END_TAG on '>': the open element is closed; the root is returned.
\* With no element open, current_element.name raises (AttributeError).
CloseElement(p) ==
    IF p.current_element = None THEN Raise(p)
    ELSE IF p.tag_name_list # Val(p.current_element).name THEN Raise(p)
    ELSE PopElement(p)

\* One iteration of the loop "for c in data".
ParserStep(p, c) ==
    CASE p.state = "DOCUMENT_START" ->
            IF c # "<" THEN Raise(p) ELSE [p EXCEPT !.state = "XML_DECL_OPENING"]
      [] p.state = "XML_DECL_OPENING" ->
            IF c # "?" THEN Raise(p) ELSE [p EXCEPT !.state = "XML_DECL"]
      [] p.state = "XML_DECL" ->
            IF c = "?" THEN [p EXCEPT !.state = "XML_DECL_CLOSING"] ELSE p
      [] p.state = "XML_DECL_CLOSING" ->
            IF c = ">" THEN [p EXCEPT !.state = "BEFORE_ROOT"]
            ELSE [p EXCEPT !.state = "XML_DECL"]
      [] p.state = "BEFORE_ROOT" ->
            IF c = "<" THEN [p EXCEPT !.state = "UNKNOWN_TAG"] ELSE p
      [] p.state = "UNKNOWN_TAG" ->
            IF c = "/" THEN [p EXCEPT !.state = "END_TAG"]
            ELSE [p EXCEPT !.tag_name_list = Append(p.tag_name_list, c),
                           !.state = "BEGIN_TAG"]
      [] p.state = "BEGIN_TAG" ->
            IF c = ">" THEN OpenElement(p)
            ELSE IF c = " " THEN [p EXCEPT !.state = "BEGIN_TAG_ATTRIBUTES"]
            ELSE [p EXCEPT !.tag_name_list = Append(p.tag_name_list, c)]
      [] p.state = "BEGIN_TAG_ATTRIBUTES" ->
            IF c = ">" THEN OpenElement(p) ELSE p
      [] p.state = "END_TAG" ->
            IF c = ">" THEN CloseElement(p)
            ELSE [p EXCEPT !.tag_name_list = Append(p.tag_name_list, c)]
      [] p.state = "TEXT" ->
            IF c = "<" THEN [p EXCEPT !.state = "UNKNOWN_TAG"]
            ELSE [p EXCEPT !.text_list = Append(p.text_list, c)]

\* The loop "for c in data" over data[lo..hi], stopping at a return or raise.
\* The range is halved so that the evaluation depth stays logarithmic.
RECURSIVE ParserRun(_, _, _, _)
ParserRun(p, data, lo, hi) ==
    IF p.status # "running" \/ lo > hi THEN p
    ELSE IF lo = hi THEN ParserStep(p, data[lo])
    ELSE LET mid == (lo + hi) \div 2
             half == ParserRun(p, data, lo, mid)
         IN ParserRun(half, data, mid + 1, hi)

\* [status |-> "returned", result |-> {root}] when the root is closed,
\* [status |-> "raised"] on an exception, and status "running" with result None
\* when the input ends first (the function returns None).
parseAionXml(data) == ParserRun(ParserInit, data, 1, Len(data))

\* ------------------------------------------------------------------------
\* Text constants of the file format
\* ------------------------------------------------------------------------

T_string == <<"s", "t", "r", "i", "n", "g">>
T_string_tip == <<"s", "t", "r", "i", "n", "g", "_", "t", "i", "p">>
T_strings == <<"s", "t", "r", "i", "n", "g", "s">>
T_string_tips == <<"s", "t", "r", "i", "n", "g", "_", "t", "i", "p", "s">>
T_id == <<"i", "d">>
T_name == <<"n", "a", "m", "e">>
T_body == <<"b", "o", "d", "y">>
T_message_type == <<"m", "e", "s", "s", "a", "g", "e", "_", "t", "y", "p", "e">>
T_display_type == <<"d", "i", "s", "p", "l", "a", "y", "_", "t", "y", "p", "e">>
T_ment == <<"m", "e", "n", "t">>
T_rank == <<"r", "a", "n", "k">>

VALID_TAGS == {T_id, T_name, T_body, T_message_type, T_display_type, T_ment, T_rank}

\* U+FEFF, the byte-order mark, as one character.
BOM == "BOM"
CRLF == <<"\r", "\n">>
\* <?xml version="1.0" encoding="utf-16"?>
XmlDecl ==
    <<"<", "?", "x", "m", "l", " ", "v", "e", "r", "s", "i", "o", "n", "=", "\"", "1", ".", "0", "\"", " ", "e", "n", "c", "o", "d", "i", "n", "g", "=", "\"", "u", "t", "f", "-", "1", "6", "\"", "?", ">">>

Digits == <<"0", "1", "2", "3", "4", "5", "6", "7", "8", "9">>
DigitChars == {Digits[i] : i \in 1..10}
DigitVal(c) == (CHOOSE i \in 1..10 : Digits[i] = c) - 1
Whitespace == {" ", "\t", "\n", "\r", "\f"}

\* ------------------------------------------------------------------------
\* Python built-ins used by read and write
\* ------------------------------------------------------------------------

\* str(n) for an int, as in f"{s.id_value}".
RECURSIVE NatToStr(_)
NatToStr(n) ==
    IF n < 10 THEN <<Digits[n + 1]>>
    ELSE NatToStr(n \div 10) \o <<Digits[(n % 10) + 1]>>
IntToStr(n) == IF n < 0 THEN <<"-">> \o NatToStr(0 - n) ELSE NatToStr(n)

\* str.strip(): leading and trailing whitespace removed.
RECURSIVE LStrip(_)
LStrip(t) == IF t # <<>> /\ Head(t) \in Whitespace THEN LStrip(Tail(t)) ELSE t
RECURSIVE RStrip(_)
RStrip(t) ==
    IF t # <<>> /\ t[Len(t)] \in Whitespace THEN RStrip(SubSeq(t, 1, Len(t) - 1)) ELSE t

RECURSIVE DigitsValue(_)
DigitsValue(t) ==
    IF t = <<>> THEN 0 ELSE DigitsValue(SubSeq(t, 1, Len(t) - 1)) * 10 + DigitVal(t[Len(t)])

\* int(text): Some(n), or None when int() raises ValueError.  Surrounding
\* whitespace, one sign and single underscores between digits are accepted.
IntLiteral(body) ==
    /\ body # <<>>
    /\ \A i \in 1..Len(body) :
           \/ body[i] \in DigitChars
           \/ /\ body[i] = "_"
              /\ 1 < i /\ i < Len(body)
              /\ body[i - 1] \in DigitChars
              /\ body[i + 1] \in DigitChars
UnsignedInt(body) ==
    IF IntLiteral(body)
    THEN Some(DigitsValue(SelectSeq(body, LAMBDA c : c \in DigitChars)))
    ELSE None
Negated(v) == IF v = None THEN None ELSE Some(0 - Val(v))
StrippedInt(t) ==
    IF t # <<>> /\ Head(t) = "-" THEN Negated(UnsignedInt(Tail(t)))
    ELSE IF t # <<>> /\ Head(t) = "+" THEN UnsignedInt(Tail(t))
    ELSE UnsignedInt(t)
PyInt(text) == StrippedInt(RStrip(LStrip(text)))

\* sorted(keys): ascending.
RECURSIVE sorted(_)
sorted(S) ==
    IF S = {} THEN <<>>
    ELSE LET m == CHOOSE x \in S : \A y \in S : x <= y
         IN <<m>> \o sorted(S \ {m})

\* ------------------------------------------------------------------------
\* Python dict: insertion-ordered, as a sequence of entries [k, v]
\* ------------------------------------------------------------------------

EmptyDict == <<>>
Keys(d) == {d[i].k : i \in 1..Len(d)}
KeyOrder(d) == [i \in 1..Len(d) |-> d[i].k]
Get(d, k) == d[CHOOSE i \in 1..Len(d) : d[i].k = k].v
\* d[k] = v: an existing key keeps its position, a new key goes last.
Put(d, k, v) ==
    IF k \in Keys(d)
    THEN [i \in 1..Len(d) |-> IF d[i].k = k THEN [k |-> k, v |-> v] ELSE d[i]]
    ELSE Append(d, [k |-> k, v |-> v])
\* d.pop(k, None)
Pop(d, k) == SelectSeq(d, LAMBDA e : e.k # k)
\* {**a, **b}
RECURSIVE Merge(_, _)
Merge(a, b) == IF b = <<>> THEN a ELSE Merge(Put(a, Head(b).k, Head(b).v), Tail(b))
\* The mapping a dict denotes, without its insertion order.
AsMap(d) == [k \in Keys(d) |-> Get(d, k)]

\* ------------------------------------------------------------------------
\* AionString, AionStringDict.read and AionStringDict.write
\* ------------------------------------------------------------------------

AionString(tag_name, id_value, name, body, message_type, display_type, ment, rank) ==
    [tag_name |-> tag_name, id_value |-> id_value, name |-> name, body |-> body,
     message_type |-> message_type, display_type |-> display_type,
     ment |-> ment, rank |-> rank]

\* A file of a directory: NoFile when the path does not exist, else its text.
NoFile == [exists |-> FALSE]
File(text) == [exists |-> TRUE, text |-> text]

\* open(path, 'r', encoding='utf-16').read(): the byte-order mark is consumed
\* and universal newlines turn "\r\n" and a lone "\r" into "\n".
UniversalNewlines(t) ==
    LET indexed == [i \in 1..Len(t) |-> <<i, t[i]>>]
        kept == SelectSeq(indexed,
                          LAMBDA e : ~(e[2] = "\n" /\ e[1] > 1 /\ t[e[1] - 1] = "\r"))
    IN [i \in 1..Len(kept) |-> IF kept[i][2] = "\r" THEN "\n" ELSE kept[i][2]]
DecodeFile(t) ==
    UniversalNewlines(IF t # <<>> /\ Head(t) = BOM THEN Tail(t) ELSE t)

\* XMLElement.find: the first child of that name, or None.
find(element, name) ==
    LET hits == {i \in 1..Len(element.children) : element.children[i].name = name}
    IN IF hits = {} THEN None
       ELSE Some(element.children[CHOOSE i \in hits : \A j \in hits : i <= j])

\* The text of an optional string field / the int of an optional int field.
\* OptInt is {None} for an absent element and None when int() raises.
TextOf(e) == IF e = None THEN None ELSE Some(Val(e).text)
OptText(element, name) == TextOf(find(element, name))
Parsed(v) == IF v = None THEN None ELSE Some(v)
IntOf(e) == IF e = None THEN Some(None) ELSE Parsed(PyInt(Val(e).text))
OptInt(element, name) == IntOf(find(element, name))

\* One iteration of "for string_element in elements.children": None when an
\* exception is raised, else the AionString built from the element.
BuildString(string_element, id_value, name_element, display_type_value, rank_value) ==
    IF string_element.name # T_string /\ string_element.name # T_string_tip THEN None
    ELSE IF \E i \in 1..Len(string_element.children) :
                string_element.children[i].name \notin VALID_TAGS THEN None
    ELSE IF id_value = Some(None) THEN None
    ELSE IF id_value = None THEN None
    ELSE IF name_element = None THEN None
    ELSE IF display_type_value = None THEN None
    ELSE IF rank_value = None THEN None
    ELSE Some(AionString(string_element.name,
                         Val(Val(id_value)),
                         Val(name_element).text,
                         OptText(string_element, T_body),
                         OptText(string_element, T_message_type),
                         Val(display_type_value),
                         OptText(string_element, T_ment),
                         Val(rank_value)))
ExtractString(string_element) ==
    BuildString(string_element,
                OptInt(string_element, T_id),
                find(string_element, T_name),
                OptInt(string_element, T_display_type),
                OptInt(string_element, T_rank))

Extracted(s) == IF s = None THEN None ELSE Some([k |-> Val(s).id_value, v |-> Val(s)])
RECURSIVE ExtractAll(_, _, _)
ExtractFrom(children, i, strings, e) ==
    IF e = None THEN [status |-> "raised", strings |-> EmptyDict]
    ELSE ExtractAll(children, i + 1, Put(strings, Val(e).k, Val(e).v))
ExtractAll(children, i, strings) ==
    IF i > Len(children) THEN [status |-> "ok", strings |-> strings]
    ELSE ExtractFrom(children, i, strings, Extracted(ExtractString(children[i])))

\* AionStringDict.read: status "ok" with the dict of AionString values, or
\* status "raised".  A parse that returns None raises at elements.children.
\* A faulty ExtractTree: a parse that returned None counts as an empty tree.
ExtractTreeOfNone(parsed) ==
    IF parsed.status = "raised" THEN [status |-> "raised", strings |-> EmptyDict]
    ELSE IF parsed.status = "running" THEN [status |-> "ok", strings |-> EmptyDict]
    ELSE ExtractAll(Val(parsed.result).children, 1, EmptyDict)
ExtractTree(parsed) ==
    IF parsed.status # "returned" THEN [status |-> "raised", strings |-> EmptyDict]
    ELSE ExtractAll(Val(parsed.result).children, 1, EmptyDict)
read(file, allow_missing) ==
    IF ~file.exists
    THEN IF allow_missing THEN [status |-> "ok", strings |-> EmptyDict]
         ELSE [status |-> "raised", strings |-> EmptyDict]
    ELSE ExtractTree(parseAionXml(DecodeFile(file.text)))

Element(indent, tag, content) ==
    indent \o <<"<">> \o tag \o <<">">> \o content \o <<"<", "/">> \o tag \o <<">">> \o CRLF
\* A faulty OptElement: an absent optional field is written as an empty element.
OptElementAlways(indent, tag, content) ==
    Element(indent, tag, IF content = None THEN <<>> ELSE Val(content))
OptElement(indent, tag, content) ==
    IF content = None THEN <<>> ELSE Element(indent, tag, Val(content))
OptIntElement(indent, tag, content) ==
    IF content = None THEN <<>> ELSE Element(indent, tag, IntToStr(Val(content)))

\* The lines write emits for one AionString.
WriteString(s) ==
    LET in2 == <<" ", " ">>
        in4 == <<" ", " ", " ", " ">>
    IN in2 \o <<"<">> \o s.tag_name \o <<">">> \o CRLF
       \o Element(in4, T_id, IntToStr(s.id_value))
       \o Element(in4, T_name, s.name)
       \o OptElement(in4, T_body, s.body)
       \o OptElement(in4, T_message_type, s.message_type)
       \o OptIntElement(in4, T_display_type, s.display_type)
       \o OptElement(in4, T_ment, s.ment)
       \o OptIntElement(in4, T_rank, s.rank)
       \o in2 \o <<"<", "/">> \o s.tag_name \o <<">">> \o CRLF

\* A faulty WriteOrder: the keys in the dict's insertion order, not sorted.
WriteOrderAsInserted(strings) == KeyOrder(strings)

\* The order in which write visits the keys of the dict.
WriteOrder(strings) == sorted(Keys(strings))

RECURSIVE WriteStrings(_, _)
WriteStrings(strings, order) ==
    IF order = <<>> THEN <<>>
    ELSE WriteString(Get(strings, Head(order))) \o WriteStrings(strings, Tail(order))

\* AionStringDict.write: the text of the file it leaves at path.
write(strings, tag) ==
    <<BOM>> \o XmlDecl \o CRLF
    \o <<"<">> \o tag \o <<">">> \o CRLF
    \o WriteStrings(strings, WriteOrder(strings))
    \o <<"<", "/">> \o tag \o <<">">> \o CRLF

\* ------------------------------------------------------------------------
\* EXPRESSION_RE and AionString.match_and_repair
\* ------------------------------------------------------------------------

\* The end of the match of \[%[^%\]].*?\] at position i of t, or 0.
BracketMatchEnd(t, i) ==
    IF /\ i + 3 <= Len(t)
       /\ t[i] = "[" /\ t[i + 1] = "%"
       /\ t[i + 2] \notin {"%", "]"}
    THEN LET ends == {j \in (i + 3)..Len(t) :
                         /\ t[j] = "]"
                         /\ \A m \in (i + 3)..(j - 1) : t[m] # "\n"}
         IN IF ends = {} THEN 0 ELSE CHOOSE j \in ends : \A m \in ends : j <= m
    ELSE 0

\* The end of the match of %[0-9] at position i of t, or 0.
PercentMatchEnd(t, i) ==
    IF i + 1 <= Len(t) /\ t[i] = "%" /\ t[i + 1] \in DigitChars THEN i + 1 ELSE 0

\* set(EXPRESSION_RE.findall(t)), scanning from position i.
MatchEnd(t, i) ==
    IF BracketMatchEnd(t, i) # 0 THEN BracketMatchEnd(t, i) ELSE PercentMatchEnd(t, i)
RECURSIVE FindallFrom(_, _)
FindallAt(t, i, e) ==
    IF e = 0 THEN FindallFrom(t, i + 1)
    ELSE {SubSeq(t, i, e)} \cup FindallFrom(t, e + 1)
FindallFrom(t, i) == IF i > Len(t) THEN {} ELSE FindallAt(t, i, MatchEnd(t, i))
Expressions(t) == FindallFrom(t, 1)

\* A printed line: its severity tag, the id it is about and what it reports.
Msg(tag, id, what) == [tag |-> tag, id |-> id, what |-> what]

\* A faulty RepairField: the difference is reported, other is left as it was.
RepairFieldKeepsOther(st, self, field) ==
    IF self[field] # st.other[field]
    THEN [st EXCEPT !.log = IF st.silent THEN st.log
                            ELSE Append(st.log, Msg("action", self.id_value, field))]
    ELSE st

\* A faulty RepairField: the assignment sits under "if not silent" with the print.
RepairFieldUnlessSilent(st, self, field) ==
    IF self[field] # st.other[field] /\ ~st.silent
    THEN [st EXCEPT !.other = [st.other EXCEPT ![field] = self[field]],
                    !.log = Append(st.log, Msg("action", self.id_value, field))]
    ELSE st

\* "Repair mismatching values": each repairable field of other is set to
\* self's value; an [action] line is printed unless silent.
RepairField(st, self, field) ==
    IF self[field] # st.other[field]
    THEN [other |-> [st.other EXCEPT ![field] = self[field]],
          log |-> IF st.silent THEN st.log
                  ELSE Append(st.log, Msg("action", self.id_value, field)),
          silent |-> st.silent]
    ELSE st

RepairFields(self, other, silent) ==
    LET s0 == [other |-> other, log |-> <<>>, silent |-> silent]
        s1 == RepairField(s0, self, "message_type")
        s2 == RepairField(s1, self, "display_type")
        s3 == RepairField(s2, self, "ment")
    IN RepairField(s3, self, "rank")

\* "match expressions": the body checks, on the record RepairFields left.
CheckBody(self, st) ==
    LET other == st.other
        say(tag, what) == IF st.silent THEN st.log
                          ELSE Append(st.log, Msg(tag, self.id_value, what))
    IN IF self.body = None /\ other.body # None /\ other.body # Some(<<>>)
       THEN [st EXCEPT !.other = [other EXCEPT !.body = None],
                       !.log = say("warn", "body_cleared")]
       ELSE IF self.body # None /\ self.body # Some(<<>>) /\ other.body = None
       THEN [st EXCEPT !.log = say("error", "body_missing")]
       ELSE IF self.body # None /\ other.body # None
               /\ Expressions(Val(self.body)) # Expressions(Val(other.body))
       THEN [st EXCEPT !.log = say("warn", "expression_mismatch")]
       ELSE st

\* self.match_and_repair(other, silent): the returned bool, other as the call
\* leaves it, and the lines printed.
Matched(st) == [ok |-> TRUE, other |-> st.other, log |-> st.log]
match_and_repair(self, other, silent) ==
    IF self.id_value # other.id_value
    THEN [ok |-> FALSE, other |-> other,
          log |-> <<Msg("critical", self.id_value, "id_mismatch")>>]
    ELSE IF self.name # other.name
    THEN [ok |-> FALSE, other |-> other,
          log |-> <<Msg("error", self.id_value, "name_mismatch")>>]
    ELSE Matched(CheckBody(self, RepairFields(self, other, silent)))

\* ------------------------------------------------------------------------
\* sync_strings
\* ------------------------------------------------------------------------

\* The dicts of a run hold references to AionString objects.  The object read
\* from directory src under key k is <<src, k>>; heap maps objects to values.
Refs(src, strings) ==
    [i \in 1..Len(strings) |-> [k |-> strings[i].k, v |-> <<src, strings[i].k>>]]
\* The objects a read creates, with their values.
RECURSIVE Objects(_, _)
Objects(src, strings) ==
    IF strings = <<>> THEN <<>>
    ELSE (<<src, Head(strings).k>> :> Head(strings).v) @@ Objects(src, Tail(strings))
Deref(heap, d) == [i \in 1..Len(d) |-> [k |-> d[i].k, v |-> heap[d[i].v]]]

\* The elements of a set in the order a "for k in <set>" loop visits them.
Iterate(S, order) == SelectSeq(order, LAMBDA k : k \in S)

\* Lines 299-308: the four reads and the merge.  status is "raised" when a read
\* raises; nothing has been written at that point.
ReadAll(disk, variant_dir) ==
    [client |-> read(disk.client, FALSE),
     reference |-> read(disk.reference, FALSE),
     patch |-> read(disk.patch, TRUE),
     variant |-> IF variant_dir THEN read(disk.variant, TRUE)
                 ELSE [status |-> "ok", strings |-> EmptyDict]]
Memory(tables) ==
    IF \E src \in DOMAIN tables : tables[src].status # "ok" THEN [status |-> "raised"]
    ELSE [status |-> "ok",
          heap |-> Objects("client", tables.client.strings)
                   @@ Objects("reference", tables.reference.strings)
                   @@ Objects("patch", tables.patch.strings)
                   @@ Objects("variant", tables.variant.strings),
          client_dict |-> Refs("client", tables.client.strings),
          l10n_patch_dict |-> Refs("patch", tables.patch.strings),
          l10n_dict |-> Merge(Merge(Refs("reference", tables.reference.strings),
                                    Refs("patch", tables.patch.strings)),
                              Refs("variant", tables.variant.strings)),
          log |-> <<>>]
LoadTables(disk, variant_dir) == Memory(ReadAll(disk, variant_dir))

\* A faulty RemoveOrphan: the key is popped from l10n_dict only.
RemoveOrphanKeepsPatch(m, k, silent) ==
    [m EXCEPT !.log = IF silent THEN m.log ELSE Append(m.log, Msg("warn", k, "orphan")),
              !.l10n_dict = Pop(m.l10n_dict, k)]

\* Lines 313-319: one iteration for an l10n string that is not in the client.
RemoveOrphan(m, k, silent) ==
    [m EXCEPT !.log = IF silent THEN m.log ELSE Append(m.log, Msg("warn", k, "orphan")),
              !.l10n_dict = Pop(m.l10n_dict, k),
              !.l10n_patch_dict = Pop(m.l10n_patch_dict, k)]

\* A faulty FillMissing: the missing string is reported and not inserted.
FillMissingLogsOnly(m, k, silent) ==
    [m EXCEPT !.log = IF silent THEN m.log ELSE Append(m.log, Msg("info", k, "missing"))]

\* Lines 321-325: one iteration for a client string l10n does not handle.
FillMissing(m, k, silent) ==
    [m EXCEPT !.log = IF silent THEN m.log ELSE Append(m.log, Msg("info", k, "missing")),
              !.l10n_patch_dict = Put(m.l10n_patch_dict, k, Get(m.client_dict, k))]

\* A faulty Matching: the result of match_and_repair is not looked at.
MatchingIgnoresResult(m, k, c, o, r) ==
    [m EXCEPT !.heap = [m.heap EXCEPT ![o] = r.other],
              !.log = m.log \o r.log]

\* Lines 327-330: one iteration for a key of both; match_and_repair mutates
\* the object l10n_dict refers to.
Matching(m, k, c, o, r) ==
    [m EXCEPT !.heap = [m.heap EXCEPT ![o] = r.other],
              !.log = m.log \o r.log,
              !.l10n_patch_dict = IF r.ok THEN m.l10n_patch_dict
                                  ELSE Put(m.l10n_patch_dict, k, c)]
\* A faulty MatchOne: the call the other way round, l10n.match_and_repair(client).
MatchOneSwapped(m, k, silent) ==
    Matching(m, k, Get(m.client_dict, k), Get(m.client_dict, k),
             match_and_repair(m.heap[Get(m.l10n_dict, k)],
                              m.heap[Get(m.client_dict, k)], silent))

MatchOne(m, k, silent) ==
    Matching(m, k, Get(m.client_dict, k), Get(m.l10n_dict, k),
             match_and_repair(m.heap[Get(m.client_dict, k)],
                              m.heap[Get(m.l10n_dict, k)], silent))

\* The three "for k in ..." loops, over the keys in the order visited.
RECURSIVE RemoveOrphans(_, _, _)
RemoveOrphans(m, ks, silent) ==
    IF ks = <<>> THEN m ELSE RemoveOrphans(RemoveOrphan(m, Head(ks), silent), Tail(ks), silent)
RECURSIVE FillAllMissing(_, _, _)
FillAllMissing(m, ks, silent) ==
    IF ks = <<>> THEN m ELSE FillAllMissing(FillMissing(m, Head(ks), silent), Tail(ks), silent)
RECURSIVE MatchAll(_, _, _)
MatchAll(m, ks, silent) ==
    IF ks = <<>> THEN m ELSE MatchAll(MatchOne(m, Head(ks), silent), Tail(ks), silent)

\* Lines 310-330: the loops, over key sets taken before the first loop.
Reconcile(m, silent, order) ==
    LET client_dict_keys == Keys(m.client_dict)
        l10n_dict_keys == Keys(m.l10n_dict)
        m1 == RemoveOrphans(m, Iterate(l10n_dict_keys \ client_dict_keys, order), silent)
        m2 == FillAllMissing(m1, Iterate(client_dict_keys \ l10n_dict_keys, order), silent)
    IN MatchAll(m2, Iterate(client_dict_keys \cap l10n_dict_keys, order), silent)

\* A faulty WritesPatch: the patch file is written with a variant as well.
WritesPatchAnyMode(variant_dir, l10n_patch_dict) == Len(l10n_patch_dict) > 0

\* Lines 332-335: whether the patch file is written.
WritesPatch(variant_dir, l10n_patch_dict) == ~variant_dir /\ Len(l10n_patch_dict) > 0

\* A faulty OutputDict: the patch dict alone.
OutputDictPatchOnly(m) == m.l10n_patch_dict

\* A faulty OutputDict: the merge the other way round, l10n_dict over the patch.
OutputDictL10nWins(m) == Merge(m.l10n_patch_dict, m.l10n_dict)

\* Line 338: the dict written to the output directory.
OutputDict(m) == Merge(m.l10n_dict, m.l10n_patch_dict)

\* Lines 332-339: the two writes, and the record of the call: the directories
\* as it leaves them, the tables as read, its tables by value and the lines
\* printed.
Persist(disk, variant_dir, tag, silent, loaded, m) ==
    [status |-> "ok",
     disk |-> [disk EXCEPT
                 !.patch = IF WritesPatch(variant_dir, m.l10n_patch_dict)
                           THEN File(write(Deref(m.heap, m.l10n_patch_dict), tag))
                           ELSE disk.patch,
                 !.output = File(write(Deref(m.heap, OutputDict(m)), tag))],
     variant_dir |-> variant_dir,
     silent |-> silent,
     inputs |-> [d \in {"client", "reference", "patch", "variant"} |-> disk[d]],
     loaded |-> loaded,
     client |-> Deref(loaded.heap, loaded.client_dict),
     client_after |-> Deref(m.heap, m.client_dict),
     translation |-> Deref(loaded.heap, loaded.l10n_dict),
     patch_loaded |-> Deref(loaded.heap, loaded.l10n_patch_dict),
     l10n |-> Deref(m.heap, m.l10n_dict),
     patch |-> Deref(m.heap, m.l10n_patch_dict),
     output |-> Deref(m.heap, OutputDict(m)),
     wrote_patch |-> WritesPatch(variant_dir, m.l10n_patch_dict),
     log |-> m.log]

\* A faulty Aborted: the output file is opened for writing before the reads.
AbortedOutputOpened(disk, variant_dir, silent) ==
    [status |-> "raised", disk |-> [disk EXCEPT !.output = File(<<>>)],
     variant_dir |-> variant_dir, silent |-> silent,
     inputs |-> [d \in {"client", "reference", "patch", "variant"} |-> disk[d]]]

\* A read raised: the call ends before the loops and before any write.
Aborted(disk, variant_dir, silent) ==
    [status |-> "raised", disk |-> disk, variant_dir |-> variant_dir, silent |-> silent,
     inputs |-> [d \in {"client", "reference", "patch", "variant"} |-> disk[d]]]

Loaded(disk, variant_dir, tag, silent, order, loaded) ==
    IF loaded.status # "ok" THEN Aborted(disk, variant_dir, silent)
    ELSE Persist(disk, variant_dir, tag, silent, loaded, Reconcile(loaded, silent, order))

\* The orders in which the "for k in <set>" loops may visit the keys of the
\* tables read: a set's iteration order is not specified.
KeyOrders(S) ==
    {o \in [1..Cardinality(S) -> S] : \A i, j \in 1..Cardinality(S) : i # j => o[i] # o[j]}
Orders(loaded) ==
    IF loaded.status # "ok" THEN {<<>>}
    ELSE KeyOrders(Keys(loaded.client_dict) \cup Keys(loaded.l10n_dict))

sync_strings(disk, variant_dir, tag, silent, order) ==
    Loaded(disk, variant_dir, tag, silent, order, LoadTables(disk, variant_dir))

\* ------------------------------------------------------------------------
\* The directories and the runs of sync_strings over them
\* ------------------------------------------------------------------------

VARIABLES
    disk,      \* the file of one table in each directory: client, reference, patch, variant, output
    last,      \* the last call of sync_strings: its arguments, tables and printed lines
    table,     \* an AionStringDict.strings being filled, key by key
    written,   \* the file AionStringDict.write left for table
    reread,    \* what AionStringDict.read returned for that file
    rewritten, \* the file AionStringDict.write left for the dict read back
    parser,    \* the local variables of a running parseAionXml
    data,      \* the characters of its input consumed so far
    elements,  \* what AionStringDict.read made of the parse once it ended
    tree,      \* the string files of every directory, by relpath
    package    \* the last call of make_package: its arguments and how it ended

syncVars == <<disk, last>>
codecVars == <<table, written, reread, rewritten>>
parserVars == <<parser, data, elements>>
packageVars == <<tree, package>>
vars == <<disk, last, table, written, reread, rewritten, parser, data, elements, tree, package>>

\* The ids of the input files, and a bound on the records they hold together.
Ids == {1, 2}
MaxRecords == 3

Str(c) == <<c>>

\* The records a client file may hold under id i.
ClientRecords(i) ==
    {AionString(T_string, i, Str("a"), None, Some(Str("A")), None, None, Some(2)),
     AionString(T_string, i, Str("a"), Some(<<>>), None, Some(1), Some(Str("m")), None),
     AionString(T_string, i, Str("a"), Some(<<"%", "1">>), Some(Str("A")), Some(1), None, Some(2))}

\* The records a reference file may hold under id i: one to repair, with an
\* expression in its body, and one under another name.
ReferenceRecords(i) ==
    {AionString(T_string, i, Str("a"), Some(<<"x", "%", "1">>), Some(Str("B")), None, Some(Str("m")), Some(12)),
     AionString(T_string, i, Str("b"), Some(Str("y")), Some(Str("A")), Some(1), None, Some(2))}

\* The records a patch file may hold under id i: one under another name, and
\* one without a body.
PatchRecords(i) ==
    {AionString(T_string, i, Str("b"), Some(Str("y")), Some(Str("A")), Some(1), None, Some(2)),
     AionString(T_string, i, Str("a"), None, Some(Str("A")), Some(1), None, Some(2))}

\* The records a variant file may hold under id i.
VariantRecords(i) ==
    {AionString(T_string, i, Str("a"), Some(Str("v")), Some(Str("B")), None, None, None)}

\* The tables over Ids whose record under i is one of records[i].
Tables(records) ==
    UNION {{t \in [S -> UNION {records[i] : i \in S}] : \A i \in S : t[i] \in records[i]}
           : S \in SUBSET Ids}
ClientTables == Tables([i \in Ids |-> ClientRecords(i)])
ReferenceTables == Tables([i \in Ids |-> ReferenceRecords(i)])
PatchTables == Tables([i \in Ids |-> PatchRecords(i)])
VariantTables == Tables([i \in Ids |-> VariantRecords(i)])
Size(t) == Cardinality(DOMAIN t)

\* A table as a dict, and the file that holds it.
RECURSIVE DictOf(_, _)
DictOf(t, ks) == IF ks = <<>> THEN EmptyDict ELSE Put(DictOf(t, Tail(ks)), Head(ks), t[Head(ks)])
FileOf(t) == File(write(DictOf(t, sorted(DOMAIN t)), T_strings))
OptFileOf(t) == IF DOMAIN t = {} THEN NoFile ELSE FileOf(t)

NoCall == [status |-> "none"]

\* The string files sync_all_strings goes through, one of STRING_FILES and the
\* one of STRING_TIPS_FILES, and the directories of main with their files.
StringFiles ==
    <<[relpath |-> "client_strings_bm.xml", tag |-> T_strings],
      [relpath |-> "stringtable_tip.xml", tag |-> T_string_tips]>>
RelPaths == {StringFiles[i].relpath : i \in 1..Len(StringFiles)}
Tree(client, reference, patch, variant, output, output_krlfg) ==
    [client |-> client, reference |-> reference, patch |-> patch, variant |-> variant,
     output |-> output, output_krlfg |-> output_krlfg]
EmptyTree ==
    LET none == [f \in RelPaths |-> NoFile]
    IN Tree(none, none, none, none, none, none)
PackageIdle ==
    /\ tree = EmptyTree
    /\ package = NoCall

ParserIdle ==
    /\ parser = ParserInit
    /\ data = <<>>
    /\ elements = NoCall
CodecIdle ==
    /\ table = EmptyDict
    /\ written = NoFile
    /\ reread = NoCall
    /\ rewritten = NoFile

Init ==
    /\ \E c \in ClientTables, r \in ReferenceTables, p \in PatchTables, v \in VariantTables :
          /\ Size(c) + Size(r) + Size(p) + Size(v) <= MaxRecords
          /\ disk = [client |-> FileOf(c), reference |-> FileOf(r),
                     patch |-> OptFileOf(p), variant |-> OptFileOf(v),
                     output |-> NoFile]
    /\ last = NoCall
    /\ CodecIdle
    /\ ParserIdle
    /\ PackageIdle

\* A call of sync_strings on the directories: it returns (or raises) having
\* replaced the files it wrote.  last records the call, and whether it came
\* right after a completed call without a variant.
Record(run, rerun) == [f \in DOMAIN run \cup {"rerun"} |-> IF f = "rerun" THEN rerun ELSE run[f]]
Call(variant_dir, tag, silent, loaded) ==
    /\ \E order \in Orders(loaded) :
        /\ last' = Record(Loaded(disk, variant_dir, tag, silent, order, loaded),
                          last.status = "ok" /\ ~last.variant_dir)
        /\ disk' = last'.disk
    /\ UNCHANGED <<codecVars, parserVars, packageVars>>

\* make_package(variant_dir=None, silent=False): the standard package.
SyncStandard == Call(FALSE, T_strings, FALSE, LoadTables(disk, FALSE))

\* make_package(variant_dir=VARIANT_KRLFG, silent=True): the variant package.
SyncVariant == Call(TRUE, T_strings, TRUE, LoadTables(disk, TRUE))

Next == SyncStandard \/ SyncVariant

Spec == Init /\ [][Next]_vars

\* ------------------------------------------------------------------------
\* AionStringDict.write and AionStringDict.read on tables built key by key
\* ------------------------------------------------------------------------

\* A bound on the number of assignments strings[k] = ... that build a table.
MaxInserts == 2

\* The records assigned: ids of one and two digits, both element tags, text
\* with spaces, '>', '/', '?', a line feed, a carriage return and digits,
\* negative and zero ints.
CodecIds == {2, 7, 10}
CodecRecords(i) ==
    {AionString(T_string, i, <<"a", " ", "b">>, Some(<<">", "/", "?">>), Some(Str("A")),
                Some(0), Some(Str("m")), Some(12)),
     AionString(T_string_tip, i, <<>>, None, None, None, None, None),
     AionString(T_string, i, Str("7"), Some(<<>>), None, Some(0 - 1), Some(<<>>), None),
     AionString(T_string_tip, i, Str("n"), Some(<<"x", "\n", " ", "y">>), Some(<<"!", "=">>),
                None, None, Some(3)),
     AionString(T_string, i, Str("r"), Some(<<"p", "\r", "q">>), None, None, None, None)}

InitCodec ==
    /\ disk = [d \in {"client", "reference", "patch", "variant", "output"} |-> NoFile]
    /\ last = NoCall
    /\ CodecIdle
    /\ ParserIdle
    /\ PackageIdle

\* strings[k] = AionString(...), as at lines 254, 325 and 330.
Insert ==
    /\ written = NoFile
    /\ Len(table) < MaxInserts
    /\ \E i \in CodecIds : \E s \in CodecRecords(i) : table' = Put(table, i, s)
    /\ UNCHANGED <<written, reread, rewritten, syncVars, parserVars, packageVars>>

\* AionStringDict(table).write(path, tag); the file is kept with its tag.
Write ==
    /\ written = NoFile
    /\ \E tag \in {T_strings, T_string_tips} :
           written' = [exists |-> TRUE, text |-> write(table, tag), tag |-> tag]
    /\ UNCHANGED <<table, reread, rewritten, syncVars, parserVars, packageVars>>

\* AionStringDict.read(path)
Read ==
    /\ written # NoFile
    /\ reread = NoCall
    /\ reread' = read(written, FALSE)
    /\ UNCHANGED <<table, written, rewritten, syncVars, parserVars, packageVars>>

\* AionStringDict.read(path).write(path2, tag)
Rewrite ==
    /\ reread.status = "ok"
    /\ rewritten = NoFile
    /\ rewritten' = File(write(reread.strings, written.tag))
    /\ UNCHANGED <<table, written, reread, syncVars, parserVars, packageVars>>

NextCodec == Insert \/ Write \/ Read \/ Rewrite

SpecCodec == InitCodec /\ [][NextCodec]_vars

\* ------------------------------------------------------------------------
\* parseAionXml character by character, and AionStringDict.read on its result
\* ------------------------------------------------------------------------

\* A bound on the number of characters fed after the text the parse starts on.
MaxFeed == 4

\* The characters fed: the ones the parser tells apart, and two letters.
Alphabet == {"<", ">", "/", " ", "a", "b"}

\* The file of a table with one record, as read sees it.
OneString == AionString(T_string, 1, Str("a"), Some(Str("x")), None, Some(1), None, None)
TableText == DecodeFile(write(Put(EmptyDict, 1, OneString), T_strings))

\* The texts a parse starts on: nothing, an unfinished and a finished
\* declaration, open elements at depth one and two, a closed child, a whole
\* table file, and that file cut before and inside the root's closing tag.
Open(name) == <<"<">> \o name \o <<">">>
Close(name) == <<"<", "/">> \o name \o <<">">>
Starts ==
    {<<>>,
     <<"<", "?">>,
     XmlDecl,
     XmlDecl \o Open(Str("a")),
     XmlDecl \o Open(Str("a")) \o Open(Str("b")),
     XmlDecl \o Open(Str("a")) \o Open(Str("b")) \o Close(Str("b")),
     TableText,
     SubSeq(TableText, 1, Len(TableText) - Len(Close(T_strings)) - 1),
     SubSeq(TableText, 1, Len(TableText) - 3)}

InitParser ==
    /\ disk = [d \in {"client", "reference", "patch", "variant", "output"} |-> NoFile]
    /\ last = NoCall
    /\ CodecIdle
    /\ \E start \in Starts :
          /\ parser = parseAionXml(start)
          /\ data = start
    /\ elements = NoCall
    /\ PackageIdle

\* One more iteration of "for c in data" (lines 47-136).
Feed ==
    /\ elements = NoCall
    /\ parser.status = "running"
    /\ \E start \in Starts :
          /\ Len(start) <= Len(data) /\ Len(data) < Len(start) + MaxFeed
          /\ SubSeq(data, 1, Len(start)) = start
    /\ \E c \in Alphabet :
          /\ parser' = ParserStep(parser, c)
          /\ data' = Append(data, c)
    /\ UNCHANGED <<elements, syncVars, codecVars, packageVars>>

\* The parse is over: it returned the root, raised, or the input ends here
\* and it returns None (line 138); read goes on from line 219.
EndParse ==
    /\ elements = NoCall
    /\ elements' = ExtractTree(parser)
    /\ UNCHANGED <<parser, data, syncVars, codecVars, packageVars>>

NextParser == Feed \/ EndParse

SpecParser == InitParser /\ [][NextParser]_vars

\* ------------------------------------------------------------------------
\* make_package and sync_all_strings over string files that may not load
\* ------------------------------------------------------------------------

\* The directories of one relpath as sync_strings sees them, and the tree
\* with the patch and output files a call left for that relpath.
DiskOf(files, relpath, output_dir) ==
    [client |-> files.client[relpath], reference |-> files.reference[relpath],
     patch |-> files.patch[relpath], variant |-> files.variant[relpath],
     output |-> files[output_dir][relpath]]
Stored(files, relpath, output_dir, d) ==
    LET left(dir) == [f \in RelPaths |->
                         IF f = relpath /\ dir = "patch" THEN d.patch
                         ELSE IF f = relpath /\ dir = output_dir THEN d.output
                         ELSE files[dir][f]]
    IN Tree(files.client, files.reference, left("patch"), files.variant,
            left("output"), left("output_krlfg"))

\* Lines 365-389: the calls of sync_strings from the i-th file on.  A call
\* that raises ends the loop; entered is the tree as that call found it.
RECURSIVE SyncFrom(_, _, _, _, _, _)
SyncEnded(files, i, output_dir, variant_dir, silent, orders, run) ==
    IF run.status = "raised"
    THEN [status |-> "raised", calls |-> i, entered |-> files,
          tree |-> Stored(files, StringFiles[i].relpath, output_dir, run.disk)]
    ELSE SyncFrom(Stored(files, StringFiles[i].relpath, output_dir, run.disk),
                  i + 1, output_dir, variant_dir, silent, orders)
SyncFrom(files, i, output_dir, variant_dir, silent, orders) ==
    IF i > Len(StringFiles)
    THEN [status |-> "ok", calls |-> i - 1, entered |-> files, tree |-> files]
    ELSE SyncEnded(files, i, output_dir, variant_dir, silent, orders,
                   sync_strings(DiskOf(files, StringFiles[i].relpath, output_dir),
                                variant_dir, StringFiles[i].tag, silent, orders[i]))
sync_all_strings(files, output_dir, variant_dir, silent, orders) ==
    SyncFrom(files, 1, output_dir, variant_dir, silent, orders)

\* Lines 393-395: shutil.rmtree(output_dir) and os.makedirs(output_dir).
RemoveTree(files, output_dir) ==
    LET left(dir) == IF dir = output_dir THEN [f \in RelPaths |-> NoFile] ELSE files[dir]
    IN Tree(files.client, files.reference, files.patch, files.variant,
            left("output"), left("output_krlfg"))

\* Lines 391-409 of make_package; the copies of textures, dialogs, cutscenes
\* and ui files that follow touch no string file.
make_package(files, output_dir, variant_dir, silent, orders) ==
    sync_all_strings(RemoveTree(files, output_dir), output_dir, variant_dir, silent, orders)

\* The ways a file of an input directory can be faulty: not there, a closing tag that names another
\* element, cut inside the root element, a sub-element of an unknown name, no
\* <name>, and an <id> that is no integer.
FaultKinds == {"missing", "mismatching_tag", "truncated", "unknown_tag", "no_name", "bad_int"}

Document(content) ==
    <<BOM>> \o XmlDecl \o CRLF \o Open(T_strings) \o CRLF \o content \o Close(T_strings) \o CRLF
FaultyFile(kind) ==
    CASE kind = "missing" -> NoFile
      [] kind = "mismatching_tag" ->
            File(Document(Open(T_string) \o Element(<<>>, T_id, Str("1")) \o Close(T_name)))
      [] kind = "truncated" ->
            File(<<BOM>> \o XmlDecl \o CRLF \o Open(T_strings) \o CRLF
                 \o Element(<<>>, T_string, Element(<<>>, T_id, Str("1")) \o Element(<<>>, T_name, Str("a"))))
      [] kind = "unknown_tag" ->
            File(Document(Element(<<>>, T_string,
                                  Element(<<>>, T_id, Str("1")) \o Element(<<>>, T_name, Str("a"))
                                  \o Element(<<>>, Str("x"), <<>>))))
      [] kind = "no_name" ->
            File(Document(Element(<<>>, T_string, Element(<<>>, T_id, Str("1")))))
      [] kind = "bad_int" ->
            File(Document(Element(<<>>, T_string,
                                  Element(<<>>, T_id, Str("x")) \o Element(<<>>, T_name, Str("a")))))

\* The sound files: the first relpath has a reference record under another
\* name than the client's and no patch or variant file, the second one an
\* empty reference table, and a patch and a variant file with a record to repair.
OneRecordFile(s, tag) == File(write(Put(EmptyDict, s.id_value, s), tag))
SoundTree ==
    LET f1 == StringFiles[1].relpath
        f2 == StringFiles[2].relpath
    IN [EmptyTree EXCEPT
          !.client[f1] = OneRecordFile(AionString(T_string, 1, Str("a"), None, Some(Str("A")), None, None, Some(2)), T_strings),
          !.reference[f1] = OneRecordFile(AionString(T_string, 1, Str("b"), Some(Str("y")), None, None, None, None), T_strings),
          !.client[f2] = OneRecordFile(AionString(T_string_tip, 1, Str("a"), None, None, Some(1), None, None), T_string_tips),
          !.reference[f2] = File(write(EmptyDict, T_string_tips)),
          !.patch[f2] = OneRecordFile(AionString(T_string_tip, 1, Str("a"), Some(Str("y")), None, None, None, None), T_string_tips),
          !.variant[f2] = OneRecordFile(AionString(T_string_tip, 1, Str("a"), Some(Str("v")), None, None, None, None), T_string_tips)]

\* Every string file is faulty in at most one input directory.
InitPackage ==
    /\ disk = [d \in {"client", "reference", "patch", "variant", "output"} |-> NoFile]
    /\ last = NoCall
    /\ CodecIdle
    /\ ParserIdle
    /\ \E faults \in [RelPaths -> {<<"none", "none">>}
                                    \cup ({"client", "reference", "patch", "variant"} \X FaultKinds)] :
          LET files(d) == [f \in RelPaths |-> IF faults[f][1] = d THEN FaultyFile(faults[f][2])
                                              ELSE SoundTree[d][f]]
          IN tree = Tree(files("client"), files("reference"), files("patch"), files("variant"),
                         SoundTree.output, SoundTree.output_krlfg)
    /\ package = NoCall

\* A call of make_package: it returns, or a call of sync_strings raised.  The
\* records of the string files all have id 1, which fixes the order of the keys.
Packaged(before, output_dir, variant_dir, run) ==
    [status |-> run.status, calls |-> run.calls, entered |-> run.entered, tree |-> run.tree,
     before |-> before, output_dir |-> output_dir, variant_dir |-> variant_dir]
MakePackage(output_dir, variant_dir, silent) ==
    /\ \E orders \in [1..Len(StringFiles) -> KeyOrders({1})] :
          package' = Packaged(tree, output_dir, variant_dir,
                              make_package(tree, output_dir, variant_dir, silent, orders))
    /\ tree' = package'.tree
    /\ UNCHANGED <<syncVars, codecVars, parserVars>>

\* Lines 424-430 and 432-438 of main.
PackageStandard == MakePackage("output", FALSE, FALSE)
PackageVariant == MakePackage("output_krlfg", TRUE, TRUE)

NextPackage == PackageStandard \/ PackageVariant

SpecPackage == InitPackage /\ [][NextPackage]_vars

\* ------------------------------------------------------------------------
\* Properties of a call of sync_strings
\* ------------------------------------------------------------------------

Completed == last.status = "ok"
RepairableFields == {"message_type", "display_type", "ment", "rank"}

\* The tables of the last call, as mappings from id to record: the client
\* table, the merged translation table as loaded, the patch as loaded, and the
\* updated patch and the output table as written.
ClientTable == AsMap(last.client)
TranslationTable == AsMap(last.translation)
LoadedPatch == AsMap(last.patch_loaded)
UpdatedPatch == AsMap(last.patch)
OutputTable == AsMap(last.output)
\* The ids of the patch file as it is stored in the patch directory.
StoredPatchIds == Keys(read(disk.patch, TRUE).strings)
\* The ids of both the client and the translation table, with equal names.
MatchedIds ==
    {id \in DOMAIN ClientTable \cap DOMAIN TranslationTable :
        ClientTable[id].name = TranslationTable[id].name}
MismatchedIds == (DOMAIN ClientTable \cap DOMAIN TranslationTable) \ MatchedIds

\* C1 (as claimed): after a completed call, with or without a variant, every id
\* of both the client and the translation table whose names are equal has an
\* output record whose message_type, display_type, ment and rank are the
\* client's.
C1_RepairConvergence ==
    Completed =>
        \A id \in MatchedIds :
            /\ id \in DOMAIN OutputTable
            /\ \A f \in RepairableFields : OutputTable[id][f] = ClientTable[id][f]

\* C2: after a completed call, every id of both the client and the translation
\* table whose names differ has the client's record, equal in every field, in
\* the output table and in the updated patch table.
C2_ClientWinsOnMismatch ==
    Completed =>
        \A id \in MismatchedIds :
            /\ id \in DOMAIN OutputTable /\ OutputTable[id] = ClientTable[id]
            /\ id \in DOMAIN UpdatedPatch /\ UpdatedPatch[id] = ClientTable[id]

\* A completed call that met a name mismatch on a record that differs from the
\* client's in more than its name.
C2_Witness ==
    /\ Completed
    /\ \E id \in MismatchedIds :
          \E f \in RepairableFields \cup {"body"} :
              TranslationTable[id][f] # ClientTable[id][f]

\* C3 (as claimed): after a completed call without a variant, every id of the
\* translation table that is not in the client table is absent from the output
\* table and from the patch file stored in the patch directory.
C3_OrphanRemoval ==
    (Completed /\ ~last.variant_dir) =>
        \A id \in DOMAIN TranslationTable \ DOMAIN ClientTable :
            /\ id \notin DOMAIN OutputTable
            /\ id \notin StoredPatchIds

\* C4: after a completed call, every id of the client table that is not in the
\* translation table has the client's record, equal in every field, in the
\* updated patch table and in the output table.
C4_MissingFill ==
    Completed =>
        \A id \in DOMAIN ClientTable \ DOMAIN TranslationTable :
            /\ id \in DOMAIN UpdatedPatch /\ UpdatedPatch[id] = ClientTable[id]
            /\ id \in DOMAIN OutputTable /\ OutputTable[id] = ClientTable[id]

\* A completed call that found a client id in no translation source, next to
\* another id that the translation does hold.
C4_Witness ==
    /\ Completed
    /\ DOMAIN ClientTable \ DOMAIN TranslationTable # {}
    /\ DOMAIN ClientTable \cap DOMAIN TranslationTable # {}

\* The ids C5 is about: in the client and the reference, not in the patch,
\* with equal names and a repairable field that differs.  (Without a variant an
\* id of the translation table that is not in the patch is the reference's.)
RepairedReferenceIds ==
    {id \in MatchedIds \ DOMAIN LoadedPatch :
        \E f \in RepairableFields : TranslationTable[id][f] # ClientTable[id][f]}
WithClientFields(c, t) ==
    [t EXCEPT !.message_type = c.message_type, !.display_type = c.display_type,
              !.ment = c.ment, !.rank = c.rank]
\* The record as the call repairs it: the body too is dropped when the client
\* has none and the reference's is not empty.
Repaired(c, t) ==
    [WithClientFields(c, t) EXCEPT
        !.body = IF c.body = None /\ t.body # None /\ t.body # Some(<<>>) THEN None ELSE t.body]

\* C5 (as claimed): after a completed call without a variant, every such id is
\* in the updated patch table with the repaired record (the client's repairable
\* fields, the reference's body), and the output record equals it.
C5_RepairedEntersPatch ==
    (Completed /\ ~last.variant_dir) =>
        \A id \in RepairedReferenceIds :
            /\ id \in DOMAIN UpdatedPatch
            /\ UpdatedPatch[id] = WithClientFields(ClientTable[id], TranslationTable[id])
            /\ OutputTable[id] = UpdatedPatch[id]

\* C5 (amended): after a completed call without a variant, every such id has
\* the repaired record in the output table (the client's repairable fields; the
\* reference's tag, name and body, the body dropped when the client has none
\* and the reference's is not empty), and the updated patch table has no record
\* for it.
C5_RepairedInOutputOnly ==
    (Completed /\ ~last.variant_dir) =>
        \A id \in RepairedReferenceIds :
            /\ id \in DOMAIN OutputTable
            /\ OutputTable[id] = Repaired(ClientTable[id], TranslationTable[id])
            /\ id \notin DOMAIN UpdatedPatch

\* A completed call without a variant that repaired a reference record and
\* kept its body.
C5_Witness ==
    /\ Completed /\ ~last.variant_dir
    /\ \E id \in RepairedReferenceIds :
          /\ TranslationTable[id].body # None
          /\ OutputTable[id].body = TranslationTable[id].body

\* C6: a completed call without a variant that is followed at once by another
\* call without a variant: the second call completes and leaves a patch file
\* and an output file identical to those the first call left.
C6_RerunStable ==
    [][(Completed /\ ~last.variant_dir /\ last'.status # "none" /\ ~last'.variant_dir)
          => (last'.status = "ok" /\ disk'.patch = disk.patch /\ disk'.output = disk.output)]_vars

\* A second call without a variant, on a patch file the first call had to
\* change, and which still repairs a reference record in memory.
C6_Witness ==
    /\ Completed /\ ~last.variant_dir /\ last.rerun
    /\ last.wrote_patch
    /\ RepairedReferenceIds # {}

\* C7: after a call with a variant, completed or not, the patch file in the
\* patch directory is the one that was there before the call.
C7_VariantLeavesPatch ==
    (last.status # "none" /\ last.variant_dir) => disk.patch = last.inputs.patch

\* A completed call with a variant whose updated patch table is not empty and
\* differs from the patch it loaded, and which dropped an orphaned id.
C7_Witness ==
    /\ Completed /\ last.variant_dir
    /\ Len(last.patch) > 0
    /\ UpdatedPatch # LoadedPatch
    /\ DOMAIN TranslationTable \ DOMAIN ClientTable # {}

\* The directories as they were before the last call.
DiskBefore ==
    [d \in {"client", "reference", "patch", "variant", "output"} |->
        IF d = "output" THEN NoFile ELSE last.inputs[d]]
SameData(other) ==
    /\ other.status = "ok"
    /\ AsMap(other.patch) = UpdatedPatch
    /\ AsMap(other.output) = OutputTable
    /\ other.wrote_patch = last.wrote_patch
    /\ other.disk.patch = disk.patch
    /\ other.disk.output = disk.output
SameDataWhenSilentIs(silent, loaded) ==
    \A order \in Orders(loaded) :
        SameData(Loaded(DiskBefore, last.variant_dir, T_strings, silent, order, loaded))

\* C8: the call of sync_strings on the same directories, hence on the same
\* tables read, with the other value of silent yields the same updated patch table, the same output table and
\* the same decision to write the patch file as the last completed call did.
C8_SilentSameData ==
    Completed => SameDataWhenSilentIs(~last.silent, last.loaded)

\* A completed silent call that repaired a field of a translation record.
C8_Witness ==
    /\ Completed /\ last.silent
    /\ \E id \in MatchedIds :
          \E f \in RepairableFields : AsMap(last.l10n)[id][f] # TranslationTable[id][f]

\* ------------------------------------------------------------------------
\* Properties of AionStringDict.write and AionStringDict.read
\* ------------------------------------------------------------------------

\* The text fields of a record, and the tables none of whose text fields
\* holds a given character.
TextFields(s) == {s.name} \cup s.body \cup s.message_type \cup s.ment
HasChar(t, c) == \E i \in 1..Len(t) : t[i] = c
Without(c, strings) ==
    \A i \in 1..Len(strings) : \A t \in TextFields(strings[i].v) : ~HasChar(t, c)
\* read returns for the file write left a table equal to the one written, and
\* writing that table again leaves the same text.
RoundTrips ==
    /\ reread # NoCall => (reread.status = "ok" /\ AsMap(reread.strings) = AsMap(table))
    /\ rewritten # NoFile => rewritten.text = written.text

\* C9 (as claimed): for a table whose text fields hold no '<', read returns for
\* the file write left a table equal to it, record by record and field by
\* field, and writing that table again leaves the same text.
C9_RoundTrip == Without("<", table) => RoundTrips

\* C9 (amended): the same for a table whose text fields hold neither '<' nor a
\* carriage return.
C9_RoundTripNoCR == (Without("<", table) /\ Without("\r", table)) => RoundTrips

\* A table of two records without a carriage return, one with no body and one
\* with an empty body, that was written, read back and written again.
C9_Witness ==
    /\ rewritten # NoFile
    /\ Without("<", table) /\ Without("\r", table)
    /\ \E i, j \in 1..Len(table) :
          table[i].v.body = None /\ table[j].v.body = Some(<<>>)
    /\ \E i \in 1..Len(reread.strings) : reread.strings[i].v.body = Some(<<>>)

\* The ids of the elements of the root of a written file, in file order.
IdsOf(root) ==
    [i \in 1..Len(root.children) |-> Val(PyInt(Val(find(root.children[i], T_id)).text))]
ElementIds(file) == IdsOf(Val(parseAionXml(DecodeFile(file.text)).result))
StrictlyIncreasing(ids) == \A i, j \in 1..Len(ids) : i < j => ids[i] < ids[j]
OneElementEach(ids, strings) ==
    /\ Len(ids) = Cardinality(Keys(strings))
    /\ {ids[i] : i \in 1..Len(ids)} = Keys(strings)
    /\ StrictlyIncreasing(ids)

\* C10: the file write leaves holds exactly one element per record of the
\* table, in strictly increasing numeric id order, whatever the order in which
\* the records were put into the table.
C10_AscendingOrder ==
    written # NoFile => OneElementEach(ElementIds(written), table)

\* A written table into which id 10 was put before a smaller id.
C10_Witness ==
    /\ written # NoFile
    /\ Len(table) = 2
    /\ table[1].k = 10

\* ------------------------------------------------------------------------
\* Further properties of a call of sync_strings
\* ------------------------------------------------------------------------

\* The translation table as the loops leave it: orphans removed, records
\* repaired.
L10nTable == AsMap(last.l10n)
NoText(body) == body = None \/ body = Some(<<>>)

\* C11 (as claimed): after a completed call, for every id of both tables with
\* equal names whose client record has no body or an empty body and whose
\* translation record has a non-empty body, the translation record is left
\* without a body, and so is the output record.
C11_BodyCleared ==
    Completed =>
        \A id \in MatchedIds :
            (NoText(ClientTable[id].body) /\ ~NoText(TranslationTable[id].body)) =>
                /\ L10nTable[id].body = None
                /\ OutputTable[id].body = None

\* C12: after a completed call, the ids of the output table are exactly the
\* ids of the client table, and every id of the updated patch table is an id
\* of the client table.
C12_OutputIdsAreClientIds ==
    Completed =>
        /\ DOMAIN OutputTable = DOMAIN ClientTable
        /\ DOMAIN UpdatedPatch \subseteq DOMAIN ClientTable

\* A completed call that loaded a patch with an orphaned id and found a client
\* id in no translation source.
C12_Witness ==
    /\ Completed
    /\ DOMAIN LoadedPatch \ DOMAIN ClientTable # {}
    /\ DOMAIN ClientTable \ DOMAIN TranslationTable # {}

\* C13: after a completed call, the output record of every id of the updated
\* patch table is the updated patch's record, also when the variant holds that
\* id, the output record of every other id of the translation table as the
\* loops leave it is that table's record, and the output holds no other id.
C13_PatchOverlaysTranslation ==
    Completed =>
        /\ DOMAIN OutputTable = DOMAIN UpdatedPatch \cup DOMAIN L10nTable
        /\ \A id \in DOMAIN UpdatedPatch : OutputTable[id] = UpdatedPatch[id]
        /\ \A id \in DOMAIN L10nTable \ DOMAIN UpdatedPatch : OutputTable[id] = L10nTable[id]

\* A completed call with a variant in which an id of the updated patch is
\* also the variant's, and the patch's record differs from the translation's.
C13_Witness ==
    /\ Completed /\ last.variant_dir
    /\ \E id \in DOMAIN UpdatedPatch \cap DOMAIN L10nTable :
          /\ <<"variant", id>> \in DOMAIN last.loaded.heap
          /\ UpdatedPatch[id] # L10nTable[id]
          /\ OutputTable[id] = UpdatedPatch[id]

\* C18: after a completed call, the client table is as it was loaded, and every
\* record of the updated patch or of the output that the call took from the
\* client (a missing id, or an id whose names differ) equals the record loaded
\* from the client file.
C18_ClientReadOnly ==
    Completed =>
        /\ AsMap(last.client_after) = ClientTable
        /\ \A id \in (DOMAIN ClientTable \ DOMAIN TranslationTable) \cup MismatchedIds :
              /\ UpdatedPatch[id] = ClientTable[id]
              /\ OutputTable[id] = ClientTable[id]

\* A completed call that repaired a translation record and put a client
\* record into the patch.
C18_Witness ==
    /\ Completed
    /\ \E id \in MatchedIds : L10nTable[id] # TranslationTable[id]
    /\ (DOMAIN ClientTable \ DOMAIN TranslationTable) \cup MismatchedIds # {}

\* C19 (as claimed): a completed call with silent=True prints no
\* reconciliation message.
C19_SilentPrintsNothing ==
    (Completed /\ last.silent) => last.log = <<>>

\* ------------------------------------------------------------------------
\* Properties of parseAionXml and of read on its result
\* ------------------------------------------------------------------------

\* The input ended while the parse was still running: parseAionXml returned
\* None, and read went on with it.
Truncated == elements # NoCall /\ parser.status = "running"

\* C15 (as claimed): when the input ends before the root's closing tag is
\* consumed, read returns an empty table without raising.
C15_TruncatedReadsEmpty ==
    Truncated => (elements.status = "ok" /\ elements.strings = EmptyDict)

\* C15 (amended): when the input ends before the root's closing tag is
\* consumed, parseAionXml yields no result and read raises.
C15_TruncatedRaises ==
    Truncated => (parser.result = None /\ elements.status = "raised")

\* A table file cut inside its root element after one whole record, read.
C15_Witness ==
    /\ Truncated
    /\ elements.status = "raised"
    /\ parser.current_element # None
    /\ Val(parser.current_element).name = T_strings
    /\ Len(Val(parser.current_element).children) = 1

\* The character '>' is consumed in state END_TAG.
EndTagCloses ==
    /\ parser.status = "running"
    /\ parser.state = "END_TAG"
    /\ data' = Append(data, ">")
\* The accumulated closing name is the name of the open element.
NamesOpenElement ==
    /\ parser.current_element # None
    /\ parser.tag_name_list = Val(parser.current_element).name
\* An element leaves the open ones: it goes to its parent or is returned.
ElementClosed ==
    \/ parser.status = "running" /\ parser'.status = "returned"
    \/ Len(parser'.element_stack) < Len(parser.element_stack)

\* C16: a '>' in END_TAG raises unless the accumulated closing name is the
\* name of the innermost open element, also when no element is open; and an
\* element is closed, or the root returned, only by a '>' in END_TAG whose
\* closing name is that of the innermost open element.
C16_ClosingTagsWellNested ==
    [][/\ (EndTagCloses /\ ~NamesOpenElement) => parser'.status = "raised"
       /\ ElementClosed => (EndTagCloses /\ NamesOpenElement)]_vars

\* A closing tag that names the parent of the innermost open element raised.
C16_Witness ==
    /\ parser.status = "raised"
    /\ parser.state = "END_TAG"
    /\ parser.element_stack # <<>>
    /\ parser.tag_name_list = parser.element_stack[Len(parser.element_stack)].name
    /\ parser.tag_name_list # Val(parser.current_element).name

\* The tag names of an element and of the elements below it.
RECURSIVE TagNames(_)
TagNames(element) ==
    {element.name} \cup UNION {TagNames(element.children[i]) : i \in 1..Len(element.children)}
\* The tag names of every element the parse has created so far.
CreatedTagNames ==
    UNION ({TagNames(e) : e \in parser.current_element}
           \cup {TagNames(parser.element_stack[i]) : i \in 1..Len(parser.element_stack)})

\* C17 (as claimed): no element created by parseAionXml has a space or a '>'
\* in its tag name.
C17_TagNamesPlain ==
    \A name \in CreatedTagNames : \A i \in 1..Len(name) : name[i] \notin {" ", ">"}

\* ------------------------------------------------------------------------
\* Properties of make_package
\* ------------------------------------------------------------------------

\* The input tables sync_strings loads, and whether one of them fails to load
\* for a relpath: the client or reference file is missing, or a file that is
\* read does not parse or does not hold well-formed records.
TablesRead(variant_dir) ==
    IF variant_dir THEN {"client", "reference", "patch", "variant"}
    ELSE {"client", "reference", "patch"}
FailsToLoad(files, relpath, variant_dir) ==
    \E d \in TablesRead(variant_dir) :
        read(files[d][relpath], d \in {"patch", "variant"}).status = "raised"
\* The first string file of the last call of make_package that fails to load.
FirstFailing ==
    {i \in 1..Len(StringFiles) :
        /\ FailsToLoad(package.before, StringFiles[i].relpath, package.variant_dir)
        /\ \A j \in 1..(i - 1) :
              ~FailsToLoad(package.before, StringFiles[j].relpath, package.variant_dir)}

\* C14: when an input table of a string file fails to load, the call of
\* sync_strings for that file raises and ends the run, and it leaves every
\* file as it found it: the patch file of that relpath is the one from before
\* the run, its output file does not exist, and the output files written for
\* the earlier string files are still there.
C14_NoWriteOnLoadFailure ==
    package # NoCall =>
        \A i \in FirstFailing :
            /\ package.status = "raised"
            /\ package.calls = i
            /\ tree = package.entered
            /\ \A j \in i..Len(StringFiles) :
                  /\ tree.patch[StringFiles[j].relpath] = package.before.patch[StringFiles[j].relpath]
                  /\ tree[package.output_dir][StringFiles[j].relpath] = NoFile
            /\ \A j \in 1..(i - 1) : tree[package.output_dir][StringFiles[j].relpath] # NoFile

\* A standard run in which the second string file failed to load after the
\* first one was synced and its patch file written.
C14_Witness ==
    /\ package # NoCall
    /\ package.status = "raised"
    /\ package.calls = 2
    /\ ~package.variant_dir
    /\ tree.output[StringFiles[1].relpath] # NoFile
    /\ tree.patch[StringFiles[1].relpath] # package.before.patch[StringFiles[1].relpath]
    /\ package.before.patch[StringFiles[2].relpath] # NoFile

====
